---------------------------- MODULE Spec2Model ----------------------------
(***************************************************************************)
(* Model of the Unify MDM backend: the matching engine                     *)
(* (app/services/matching_engine.py), the golden record service            *)
(* (app/services/golden_record_service.py) and the request handlers that   *)
(* drive them (app/api/matching.py, app/api/golden_records.py,             *)
(* app/api/upload.py).                                                     *)
(*                                                                         *)
(* Conventions.                                                            *)
(*  - A Python str is a sequence of one-character strings.  None and ""    *)
(*    are both the empty sequence: every use in the modelled code tests    *)
(*    them by truthiness (`not value`, `value or ""`).                     *)
(*  - A float score is an exact fraction <<num, den>>; round(x, 4) is the  *)
(*    integer number of ten-thousandths.  Weights and thresholds are       *)
(*    integers in hundredths and ten-thousandths.                          *)
(*  - Primary keys are uuid4 strings in the code; the model uses the       *)
(*    position of the row in its table (1, 2, ...).  NULL foreign keys     *)
(*    are 0.                                                               *)
(***************************************************************************)
EXTENDS Integers, Sequences, FiniteSets, TLC

(***************************************************************************)
(* Bounds of the model                                                     *)
(***************************************************************************)
\* datetime.utcnow() is read at most MaxClock times in a behaviour
MaxClock == 2
\* at most MaxGoldens rows in golden_records
MaxGoldens == 3
\* at most MaxCandidates rows in match_candidates
MaxCandidates == 3

NULL == 0

(***************************************************************************)
(* Strings                                                                 *)
(***************************************************************************)
Digits == {"0", "1", "2", "3", "4", "5", "6", "7", "8", "9"}

\* str.lower() on the characters the model uses
LowerChar(c) ==
    CASE c = "A" -> "a"
      [] c = "B" -> "b"
      [] c = "X" -> "x"
      [] OTHER   -> c

Lower(s) == [i \in 1..Len(s) |-> LowerChar(s[i])]

IsSpace(c) == c = " "

RECURSIVE LStrip(_)
LStrip(s) == IF s # <<>> /\ IsSpace(Head(s)) THEN LStrip(Tail(s)) ELSE s

RECURSIVE RStrip(_)
RStrip(s) ==
    IF s # <<>> /\ IsSpace(s[Len(s)]) THEN RStrip(SubSeq(s, 1, Len(s) - 1)) ELSE s

\* str.strip()
Strip(s) == RStrip(LStrip(s))

\* re.sub(r'\s+', ' ', s)
RECURSIVE CollapseSpaces(_)
CollapseSpaces(s) ==
    IF s = <<>> THEN <<>>
    ELSE IF IsSpace(Head(s))
         THEN <<" ">> \o CollapseSpaces(LStrip(Tail(s)))
         ELSE <<Head(s)>> \o CollapseSpaces(Tail(s))

\* a.endswith(b)
EndsWith(a, b) ==
    /\ Len(b) <= Len(a)
    /\ SubSeq(a, Len(a) - Len(b) + 1, Len(a)) = b

\* a.startswith(b)
StartsWith(a, b) ==
    /\ Len(b) <= Len(a)
    /\ SubSeq(a, 1, Len(b)) = b

\* s.replace(old, ""): every non-overlapping occurrence, left to right
RECURSIVE RemoveAll(_, _)
RemoveAll(s, old) ==
    IF s = <<>> THEN <<>>
    ELSE IF StartsWith(s, old)
         THEN RemoveAll(SubSeq(s, Len(old) + 1, Len(s)), old)
         ELSE <<Head(s)>> \o RemoveAll(Tail(s), old)

\* s.rstrip("/")
RECURSIVE RStripSlash(_)
RStripSlash(s) ==
    IF s # <<>> /\ s[Len(s)] = "/"
    THEN RStripSlash(SubSeq(s, 1, Len(s) - 1))
    ELSE s

(***************************************************************************)
(* Normalizers                                                             *)
(***************************************************************************)
normalize_text(text) ==
    IF text = <<>> THEN <<>> ELSE CollapseSpaces(Strip(Lower(text)))

RECURSIVE normalize_phone(_)
normalize_phone(phone) ==
    IF phone = <<>> THEN <<>>
    ELSE IF Head(phone) \in Digits
         THEN <<Head(phone)>> \o normalize_phone(Tail(phone))
         ELSE normalize_phone(Tail(phone))

normalize_email(email) ==
    IF email = <<>> THEN <<>> ELSE Strip(Lower(email))

normalize_website(value) ==
    RStripSlash(
        RemoveAll(
            RemoveAll(
                RemoveAll(normalize_text(value),
                          <<"h", "t", "t", "p", "s", ":", "/", "/">>),
                <<"h", "t", "t", "p", ":", "/", "/">>),
            <<"w", "w", "w", ".">>))

(***************************************************************************)
(* Similarity kernels: scores are exact fractions <<num, den>>             *)
(***************************************************************************)
Zero == <<0, 1>>
One == <<1, 1>>

Max2(x, y) == IF x >= y THEN x ELSE y
Min2(x, y) == IF x <= y THEN x ELSE y

compare_exact(a, b) ==
    IF a = <<>> \/ b = <<>> THEN Zero
    ELSE IF a = b THEN One ELSE Zero

\* One row of the Levenshtein table: row for the prefix of a ending in ch,
\* given the previous row prev (indexed 1..Len(b)+1) and its own first cell.
RECURSIVE LevRow(_, _, _, _)
LevRow(prev, ch, b, acc) ==
    LET j == Len(acc)
    IN  IF j = Len(b) + 1 THEN acc
        ELSE LET cost == IF b[j] = ch THEN 0 ELSE 1
                 cell == Min2(Min2(prev[j + 1] + 1, acc[j] + 1), prev[j] + cost)
             IN  LevRow(prev, ch, b, Append(acc, cell))

RECURSIVE LevRows(_, _, _, _)
LevRows(a, b, i, prev) ==
    IF i > Len(a) THEN prev[Len(b) + 1]
    ELSE LevRows(a, b, i + 1, LevRow(prev, a[i], b, <<i>>))

\* jellyfish.levenshtein_distance
levenshtein_distance(a, b) ==
    LevRows(a, b, 1, [j \in 1..(Len(b) + 1) |-> j - 1])

\* The similarity normalized by the length of a in place of max_len
compare_levenshtein_len_a(a, b) ==
    IF a = <<>> \/ b = <<>> THEN Zero
    ELSE IF a = b THEN One
    ELSE <<Len(a) - levenshtein_distance(a, b), Len(a)>>

compare_levenshtein(a, b) ==
    IF a = <<>> \/ b = <<>> THEN Zero
    ELSE IF a = b THEN One
    ELSE LET max_len == Max2(Len(a), Len(b))
         IN  <<max_len - levenshtein_distance(a, b), max_len>>

\* The matching pass of Jaro: every character of s1, left to right, takes
\* the first free equal character of s2 within search_range of its
\* position.  Returns the flagged positions of s1 and of s2.
RECURSIVE JaroFlags(_, _, _, _, _, _)
JaroFlags(s1, s2, search_range, i, s1_flags, s2_flags) ==
    IF i > Len(s1) THEN <<s1_flags, s2_flags>>
    ELSE LET low == Max2(1, i - search_range)
             hi == Min2(i + search_range, Len(s2))
             free == {j \in low..hi : j \notin s2_flags /\ s2[j] = s1[i]}
         IN  IF free = {}
             THEN JaroFlags(s1, s2, search_range, i + 1, s1_flags, s2_flags)
             ELSE LET j == CHOOSE k \in free : \A l \in free : k <= l
                  IN  JaroFlags(s1, s2, search_range, i + 1,
                                s1_flags \cup {i}, s2_flags \cup {j})

\* The flagged characters of s, in order
RECURSIVE Flagged(_, _, _)
Flagged(s, flags, i) ==
    IF i > Len(s) THEN <<>>
    ELSE (IF i \in flags THEN <<s[i]>> ELSE <<>>) \o Flagged(s, flags, i + 1)

\* jellyfish.jaro_winkler_similarity
jaro_winkler_similarity(s1, s2) ==
    IF s1 = <<>> \/ s2 = <<>> THEN Zero
    ELSE LET s1_len == Len(s1)
             s2_len == Len(s2)
             search_range == Max2((Max2(s1_len, s2_len) \div 2) - 1, 0)
             flags == JaroFlags(s1, s2, search_range, 1, {}, {})
             common_chars == Cardinality(flags[1])
             m1 == Flagged(s1, flags[1], 1)
             m2 == Flagged(s2, flags[2], 1)
             trans_count ==
                 Cardinality({k \in 1..common_chars : m1[k] # m2[k]}) \div 2
             n == common_chars * common_chars * (s1_len + s2_len)
                    + (common_chars - trans_count) * s1_len * s2_len
             d == 3 * s1_len * s2_len * common_chars
             j == Min2(Min2(s1_len, s2_len), 4)
             prefix == Cardinality({k \in 1..j : SubSeq(s1, 1, k) = SubSeq(s2, 1, k)})
         IN  IF common_chars = 0 THEN Zero
             ELSE IF 10 * n > 7 * d /\ prefix > 0
                  THEN <<10 * n + prefix * (d - n), 10 * d>>
                  ELSE <<n, d>>

compare_jaro_winkler(a, b) ==
    IF a = <<>> \/ b = <<>> THEN Zero
    ELSE jaro_winkler_similarity(a, b)

(***************************************************************************)
(* Field comparator                                                        *)
(***************************************************************************)
CUSTOMER_FIELDS ==
    << "company_name", "first_name", "last_name", "email", "phone",
       "address_line1", "address_line2", "city", "state", "postal_code",
       "country", "tax_id", "website" >>

FieldNames == {CUSTOMER_FIELDS[i] : i \in 1..Len(CUSTOMER_FIELDS)}

\* Weights in hundredths.
DEFAULT_FIELD_WEIGHTS ==
    [f \in {"company_name", "email", "phone", "first_name", "last_name",
            "address_line1", "city", "postal_code", "tax_id", "website"} |->
        CASE f = "company_name" -> 25
          [] f = "email"        -> 20
          [] f \in {"phone", "first_name", "last_name"} -> 10
          [] OTHER -> 5]

\* The phone branch without the suffix rule
compare_field_no_suffix(field_name, value_a, value_b) ==
    IF value_a = <<>> /\ value_b = <<>> THEN Zero
    ELSE IF value_a = <<>> \/ value_b = <<>> THEN Zero
    ELSE CASE field_name = "email" ->
                compare_exact(normalize_email(value_a), normalize_email(value_b))
           [] field_name = "tax_id" ->
                compare_exact(normalize_text(value_a), normalize_text(value_b))
           [] field_name = "phone" ->
                LET a == normalize_phone(value_a)
                    b == normalize_phone(value_b)
                IN  IF a = <<>> \/ b = <<>> THEN Zero
                    ELSE compare_levenshtein(a, b)
           [] field_name = "website" ->
                LET a == normalize_website(value_a)
                    b == normalize_website(value_b)
                IN  IF a # <<>> /\ b # <<>> THEN compare_exact(a, b) ELSE Zero
           [] field_name \in {"city", "state", "postal_code", "country"} ->
                compare_jaro_winkler(normalize_text(value_a), normalize_text(value_b))

\* The branches for first_name, last_name, company_name and the address
\* lines also call jellyfish.metaphone and fuzz.token_sort_ratio; the records
\* of the model leave those fields empty, so those branches are never
\* entered with two non-empty values.  The last branch is the default one:
\* the standard fields that no earlier branch names.
compare_field(field_name, value_a, value_b) ==
    IF value_a = <<>> /\ value_b = <<>> THEN Zero
    ELSE IF value_a = <<>> \/ value_b = <<>> THEN Zero
    ELSE CASE field_name = "email" ->
                compare_exact(normalize_email(value_a), normalize_email(value_b))
           [] field_name = "tax_id" ->
                compare_exact(normalize_text(value_a), normalize_text(value_b))
           [] field_name = "phone" ->
                LET a == normalize_phone(value_a)
                    b == normalize_phone(value_b)
                IN  IF a = <<>> \/ b = <<>> THEN Zero
                    ELSE IF EndsWith(a, b) \/ EndsWith(b, a) THEN <<19, 20>>
                    ELSE compare_levenshtein(a, b)
           [] field_name = "website" ->
                LET a == normalize_website(value_a)
                    b == normalize_website(value_b)
                IN  IF a # <<>> /\ b # <<>> THEN compare_exact(a, b) ELSE Zero
           [] field_name \in {"city", "state", "postal_code", "country"} ->
                compare_jaro_winkler(normalize_text(value_a), normalize_text(value_b))

(***************************************************************************)
(* Record comparator                                                       *)
(***************************************************************************)
\* round(n/d, 4), in ten-thousandths (ties to even, as Python's round)
Round4(x) ==
    LET n == x[1] * 10000
        q == n \div x[2]
        r == n % x[2]
    IN  IF 2 * r > x[2] THEN q + 1
        ELSE IF 2 * r < x[2] THEN q
        ELSE IF q % 2 = 0 THEN q ELSE q + 1

\* The scored fields without the skip of the fields empty on both sides
ScoredFieldsAll(record_a, record_b, weights) == DOMAIN weights

\* The fields of the weight map that compare_records scores: those where at
\* least one of the two records has a value.
ScoredFields(record_a, record_b, weights) ==
    {f \in DOMAIN weights : ~(record_a[f] = <<>> /\ record_b[f] = <<>>)}

\* weighted_sum as a fraction: sum over the scored fields of score * weight
RECURSIVE WeightedSum(_, _, _, _)
WeightedSum(record_a, record_b, weights, todo) ==
    IF todo = {} THEN Zero
    ELSE LET f == CHOOSE g \in todo : TRUE
             s == compare_field(f, record_a[f], record_b[f])
             rest == WeightedSum(record_a, record_b, weights, todo \ {f})
         IN  <<rest[1] * s[2] + s[1] * weights[f] * rest[2], rest[2] * s[2]>>

RECURSIVE TotalWeight(_, _)
TotalWeight(weights, todo) ==
    IF todo = {} THEN 0
    ELSE LET f == CHOOSE g \in todo : TRUE
         IN  weights[f] + TotalWeight(weights, todo \ {f})

\* field_weights = <<>> stands for None / {} (both falsy)
compare_records(record_a, record_b, field_weights) ==
    LET weights == IF DOMAIN field_weights = {} THEN DEFAULT_FIELD_WEIGHTS
                   ELSE field_weights
        scored == ScoredFields(record_a, record_b, weights)
        weighted_sum == WeightedSum(record_a, record_b, weights, scored)
        total_weight == TotalWeight(weights, scored)
    IN  [ overall_score |->
              IF total_weight > 0
              THEN Round4(<<weighted_sum[1], weighted_sum[2] * total_weight>>)
              ELSE 0,
          field_scores |->
              [f \in scored |-> Round4(compare_field(f, record_a[f], record_b[f]))] ]

(***************************************************************************)
(* The rows the import collaborator can load: source file 1 holds row 1,   *)
(* source file 2 holds rows 2 and 3.  import_records stores                *)
(* str(value).strip() when non-empty and leaves every other column NULL.   *)
(***************************************************************************)
NoFields == [f \in FieldNames |-> <<>>]

Sources == {1, 2}

RecordIds == 1..3

SourceOf(r) == IF r = 1 THEN 1 ELSE 2

RecordData ==
    << [NoFields EXCEPT !["email"] = <<"a", "@", "x">>],
       [NoFields EXCEPT !["email"] = <<"A", "@", "X">>],
       [NoFields EXCEPT !["email"] = <<"a", "@", "x">>,
                        !["phone"] = <<"5", "5", "-", "0", "1">>] >>

(***************************************************************************)
(* State                                                                   *)
(***************************************************************************)
VARIABLES
    customer_records,   \* table customer_records: the record ids, in row order
    golden_record_id,   \* CustomerRecord.golden_record_id of every record
    match_candidates,   \* table match_candidates: row i has id i
    golden_records,     \* table golden_records: row i has id i
    clock,              \* number of times datetime.utcnow() has been read
    txn,                \* per worker: the request it is serving and what it read
    deleted_sources,    \* the sources whose data_sources row has been deleted
    probe               \* a call of compare_records: its arguments and result

vars == << customer_records, golden_record_id, match_candidates,
           golden_records, clock, txn, deleted_sources, probe >>

store == << customer_records, golden_record_id, match_candidates,
            golden_records, deleted_sources >>

Workers == {1, 2}

Idle == [pc |-> "idle"]

\* No call of compare_records is being observed
NoProbe == [pc |-> "none"]

\* MatchStatus
PENDING == "pending"
APPROVED == "approved"
REJECTED == "rejected"
MERGED == "merged"

MatchStatus == {PENDING, APPROVED, REJECTED, MERGED}

\* Inputs of the requests
Thresholds == {5000, 10000}

NoWeights == <<>>

WeightChoices == {NoWeights, [f \in {"phone"} |-> 100]}

NoValues == <<>>

SurvivingChoices == {NoValues, [f \in {"email"} |-> <<"o", "@", "x">>]}

NoNotes == <<>>

NotesChoices == {<<"n">>}

ReviewStatuses == {"approved", "rejected", "merged", "pending"}

Range(seq) == {seq[i] : i \in 1..Len(seq)}

\* SELECT ... WHERE source_id = s, in row order
RECURSIVE SelectSeq2(_, _)
SelectSeq2(seq, keep) ==
    IF seq = <<>> THEN <<>>
    ELSE IF Head(seq) \in keep
         THEN <<Head(seq)>> \o SelectSeq2(Tail(seq), keep)
         ELSE SelectSeq2(Tail(seq), keep)

Init ==
    /\ customer_records = <<>>
    /\ golden_record_id = [r \in RecordIds |-> NULL]
    /\ match_candidates = <<>>
    /\ golden_records = <<>>
    /\ clock = 0
    /\ txn = [w \in Workers |-> Idle]
    /\ deleted_sources = {}
    /\ probe = NoProbe

(***************************************************************************)
(* import_file_records / import_records: the rows of one source file are   *)
(* appended to customer_records, unlinked.                                 *)
(***************************************************************************)
import_records(source_id) ==
    customer_records \o SelectSeq2(<<1, 2, 3>>, {r \in RecordIds : SourceOf(r) = source_id})

ImportRecords(source_id) ==
    /\ source_id \notin deleted_sources   \* HTTPException(404)
    /\ \A r \in Range(customer_records) : SourceOf(r) # source_id
    /\ customer_records' = import_records(source_id)
    /\ UNCHANGED << golden_record_id, match_candidates, golden_records, clock, txn,
                    deleted_sources, probe >>


(***************************************************************************)
(* Matching engine: find_matches                                           *)
(***************************************************************************)
\* [(a, b) for a in new_records for b in existing_records]
RECURSIVE CrossPairs(_, _)
CrossPairs(new_records, existing_records) ==
    IF new_records = <<>> THEN <<>>
    ELSE [j \in 1..Len(existing_records) |-> <<Head(new_records), existing_records[j]>>]
         \o CrossPairs(Tail(new_records), existing_records)

\* Only the pairs of neighbouring rows: list(zip(all_records, all_records[1:]))
Combinations2Adjacent(all_records) ==
    [j \in 1..(Len(all_records) - 1) |-> <<all_records[j], all_records[j + 1]>>]

\* list(itertools.combinations(all_records, 2))
RECURSIVE Combinations2(_)
Combinations2(all_records) ==
    IF all_records = <<>> THEN <<>>
    ELSE [j \in 1..(Len(all_records) - 1) |-> <<Head(all_records), all_records[j + 1]>>]
         \o Combinations2(Tail(all_records))

\* The pairs of a scoped run whose second query has lost its filter
MatchPairsSelfJoin(records, source_id) ==
    IF source_id # NULL
    THEN CrossPairs(SelectSeq2(records, {r \in RecordIds : SourceOf(r) = source_id}),
                    records)
    ELSE Combinations2(records)

\* The pairs of a run that ignores its scope
MatchPairsUnscoped(records, source_id) == Combinations2(records)

\* The pairs a run compares, from the rows of customer_records it loaded.
\* `if source_id:` - None (NULL) means an unscoped run.
MatchPairs(records, source_id) ==
    IF source_id # NULL
    THEN CrossPairs(SelectSeq2(records, {r \in RecordIds : SourceOf(r) = source_id}),
                    SelectSeq2(records, {r \in RecordIds : SourceOf(r) # source_id}))
    ELSE Combinations2(records)

\* The pairs of the candidates that are still PENDING
ExistingPairsPendingOnly(candidates) ==
    UNION { {<<candidates[i].record_a_id, candidates[i].record_b_id>>,
             <<candidates[i].record_b_id, candidates[i].record_a_id>>} :
            i \in {k \in 1..Len(candidates) : candidates[k].status = PENDING} }

\* existing_pairs with only the stored ordering of every pair added
ExistingPairsOneWay(candidates) ==
    {<<candidates[i].record_a_id, candidates[i].record_b_id>> :
        i \in 1..Len(candidates)}

\* existing_pairs: both orderings of every stored candidate's pair
ExistingPairs(candidates) ==
    UNION {{<<candidates[i].record_a_id, candidates[i].record_b_id>>,
            <<candidates[i].record_b_id, candidates[i].record_a_id>>} :
           i \in 1..Len(candidates)}

\* compare_records on two stored rows.  The rows never change after the
\* import, so the comparisons are tabulated once.
CompareTable ==
    [w \in WeightChoices |->
        [p \in RecordIds \X RecordIds |->
            compare_records(RecordData[p[1]], RecordData[p[2]], w)]]

CompareStored(a, b, field_weights) == CompareTable[field_weights][<<a, b>>]

NewCandidate(a, b, cmp) ==
    [ record_a_id |-> a, record_b_id |-> b,
      overall_score |-> cmp.overall_score, field_scores |-> cmp.field_scores,
      match_method |-> "rule_based_v1", status |-> PENDING,
      reviewed_at |-> NULL, notes |-> NoNotes ]

\* The loop leaving at the first candidate it emits
RECURSIVE MatchLoopFirstOnly(_, _, _, _, _)
MatchLoopFirstOnly(pairs, existing_pairs, threshold, field_weights, matches) ==
    IF pairs = <<>> THEN matches
    ELSE LET a == Head(pairs)[1]
             b == Head(pairs)[2]
         IN  IF <<a, b>> \in existing_pairs
             THEN MatchLoopFirstOnly(Tail(pairs), existing_pairs, threshold,
                                     field_weights, matches)
             ELSE LET cmp == CompareStored(a, b, field_weights)
                  IN  IF cmp.overall_score >= threshold
                      THEN Append(matches, NewCandidate(a, b, cmp))
                      ELSE MatchLoopFirstOnly(Tail(pairs), existing_pairs, threshold,
                                              field_weights, matches)

\* The loop with a strict comparison against the threshold
RECURSIVE MatchLoopStrict(_, _, _, _, _)
MatchLoopStrict(pairs, existing_pairs, threshold, field_weights, matches) ==
    IF pairs = <<>> THEN matches
    ELSE LET a == Head(pairs)[1]
             b == Head(pairs)[2]
         IN  IF <<a, b>> \in existing_pairs
             THEN MatchLoopStrict(Tail(pairs), existing_pairs, threshold,
                                  field_weights, matches)
             ELSE LET cmp == CompareStored(a, b, field_weights)
                  IN  IF cmp.overall_score > threshold
                      THEN MatchLoopStrict(Tail(pairs),
                                           existing_pairs \cup {<<a, b>>, <<b, a>>},
                                           threshold, field_weights,
                                           Append(matches, NewCandidate(a, b, cmp)))
                      ELSE MatchLoopStrict(Tail(pairs), existing_pairs, threshold,
                                           field_weights, matches)

\* The loop over the pairs: returns `matches`, the candidates added to the
\* session, in order.
RECURSIVE MatchLoop(_, _, _, _, _)
MatchLoop(pairs, existing_pairs, threshold, field_weights, matches) ==
    IF pairs = <<>> THEN matches
    ELSE LET a == Head(pairs)[1]
             b == Head(pairs)[2]
         IN  IF <<a, b>> \in existing_pairs
             THEN MatchLoop(Tail(pairs), existing_pairs, threshold, field_weights, matches)
             ELSE LET cmp == CompareStored(a, b, field_weights)
                  IN  IF cmp.overall_score >= threshold
                      THEN MatchLoop(Tail(pairs),
                                     existing_pairs \cup {<<a, b>>, <<b, a>>},
                                     threshold, field_weights,
                                     Append(matches, NewCandidate(a, b, cmp)))
                      ELSE MatchLoop(Tail(pairs), existing_pairs, threshold,
                                     field_weights, matches)

\* find_matches on what the session read: the rows of customer_records and
\* of match_candidates.  Returns the list of created candidates.
find_matches(records, candidates, source_id, threshold, field_weights) ==
    MatchLoop(MatchPairs(records, source_id), ExistingPairs(candidates),
              threshold, field_weights, <<>>)

\* The run that also rescores the stored candidates with its weights
RunMatchingRescoring(source_id, threshold, field_weights) ==
    LET matches == find_matches(customer_records, match_candidates,
                                source_id, threshold, field_weights)
        rescored == [i \in 1..Len(match_candidates) |->
                        LET cmp == CompareStored(match_candidates[i].record_a_id,
                                                 match_candidates[i].record_b_id,
                                                 field_weights)
                        IN  [match_candidates[i] EXCEPT
                                !.overall_score = cmp.overall_score,
                                !.field_scores = cmp.field_scores]]
    IN  /\ Len(match_candidates) + Len(matches) <= MaxCandidates
        /\ match_candidates' = rescored \o matches
        /\ UNCHANGED << customer_records, golden_record_id, golden_records, clock, txn,
                    deleted_sources, probe >>

\* The run with the table emptied before the new candidates are stored
RunMatchingReplacing(source_id, threshold, field_weights) ==
    LET matches == find_matches(customer_records, match_candidates,
                                source_id, threshold, field_weights)
    IN  /\ Len(matches) <= MaxCandidates
        /\ match_candidates' = matches
        /\ UNCHANGED << customer_records, golden_record_id, golden_records, clock, txn,
                    deleted_sources, probe >>

\* POST /api/matches/run, served without interleaving
RunMatching(source_id, threshold, field_weights) ==
    LET matches == find_matches(customer_records, match_candidates,
                                source_id, threshold, field_weights)
    IN  /\ Len(match_candidates) + Len(matches) <= MaxCandidates
        /\ match_candidates' = match_candidates \o matches
        /\ UNCHANGED << customer_records, golden_record_id, golden_records, clock, txn,
                    deleted_sources, probe >>

(***************************************************************************)
(* PUT /api/matches/{match_id}/review                                      *)
(***************************************************************************)
\* The review without the check of the requested status: MatchStatus(status)
\* takes any of the four values
review_match_any_status(match_id, status, notes) ==
    IF match_id \notin 1..Len(match_candidates)
    THEN UNCHANGED vars
    ELSE /\ clock < MaxClock
         /\ clock' = clock + 1
         /\ match_candidates' =
                [match_candidates EXCEPT ![match_id] =
                    [@ EXCEPT !.status = status, !.reviewed_at = clock', !.notes = notes]]
         /\ UNCHANGED << customer_records, golden_record_id, golden_records, txn,
                         deleted_sources, probe >>

\* The review with its UPDATE applied to every row of match_candidates
review_match_every_row(match_id, status, notes) ==
    IF match_id \notin 1..Len(match_candidates)
    THEN UNCHANGED vars
    ELSE IF status \notin {"approved", "rejected"}
    THEN UNCHANGED vars
    ELSE /\ clock < MaxClock
         /\ clock' = clock + 1
         /\ match_candidates' =
                [i \in 1..Len(match_candidates) |->
                    [match_candidates[i] EXCEPT
                        !.status = status, !.reviewed_at = clock', !.notes = notes]]
         /\ UNCHANGED << customer_records, golden_record_id, golden_records, txn,
                    deleted_sources, probe >>

review_match(match_id, status, notes) ==
    IF match_id \notin 1..Len(match_candidates)
    THEN UNCHANGED vars   \* HTTPException(404)
    ELSE IF status \notin {"approved", "rejected"}
    THEN UNCHANGED vars   \* HTTPException(400)
    ELSE /\ clock < MaxClock
         /\ clock' = clock + 1
         /\ match_candidates' =
                [match_candidates EXCEPT ![match_id] =
                    [@ EXCEPT !.status = status, !.reviewed_at = clock', !.notes = notes]]
         /\ UNCHANGED << customer_records, golden_record_id, golden_records, txn,
                    deleted_sources, probe >>


(***************************************************************************)
(* Golden record service: merge_records                                    *)
(***************************************************************************)
\* The selection that takes record_b's value on a length tie
auto_select_prefer_b(record_a, record_b) ==
    [f \in FieldNames |->
        LET val_a == record_a[f]
            val_b == record_b[f]
        IN  IF val_a # <<>> /\ val_b = <<>> THEN val_a
            ELSE IF val_b # <<>> /\ val_a = <<>> THEN val_b
            ELSE IF val_a # <<>> /\ val_b # <<>>
                 THEN (IF Len(val_a) > Len(val_b) THEN val_a ELSE val_b)
            ELSE <<>>]

auto_select_best_values(record_a, record_b) ==
    [f \in FieldNames |->
        LET val_a == record_a[f]
            val_b == record_b[f]
        IN  IF val_a # <<>> /\ val_b = <<>> THEN val_a
            ELSE IF val_b # <<>> /\ val_a = <<>> THEN val_b
            ELSE IF val_a # <<>> /\ val_b # <<>>
                 THEN (IF Len(val_a) >= Len(val_b) THEN val_a ELSE val_b)
            ELSE <<>>]

\* `values` with the automatic selection filling the fields the operator's
\* map leaves out
MergeValuesFallback(surviving_values, record_a, record_b) ==
    [f \in FieldNames |->
        IF f \in DOMAIN surviving_values
        THEN surviving_values[f]
        ELSE auto_select_best_values(record_a, record_b)[f]]

\* `values`: the operator's map when it is truthy (non-empty), else the
\* automatic selection.
MergeValues(surviving_values, record_a, record_b) ==
    IF DOMAIN surviving_values # {}
    THEN surviving_values
    ELSE auto_select_best_values(record_a, record_b)

\* existing_golden looked up through record_a only
ExistingGoldenOnlyA(golden_a, golden_b) ==
    IF golden_a # NULL THEN golden_a ELSE NULL

\* The id of existing_golden: record_a's golden if it has one, else
\* record_b's, else NULL.
ExistingGolden(golden_a, golden_b) ==
    IF golden_a # NULL THEN golden_a
    ELSE IF golden_b # NULL THEN golden_b
    ELSE NULL

\* The UPDATE of the existing golden row: the truthy values overwrite its
\* fields, and source_count becomes the value the session read plus one.
UpdateGolden(row, read_source_count, values) ==
    [ fields |-> [f \in FieldNames |->
                     IF f \in DOMAIN values /\ values[f] # <<>>
                     THEN values[f] ELSE row.fields[f]],
      source_count |-> read_source_count + 1 ]

\* The new golden created with the source_count of a promotion
NewGoldenSingle(values) ==
    [ fields |-> [f \in FieldNames |->
                     IF f \in DOMAIN values THEN values[f] ELSE <<>>],
      source_count |-> 1 ]

\* GoldenRecord(source_count=2, **{f: values.get(f) for f in CUSTOMER_FIELDS})
NewGolden(values) ==
    [ fields |-> [f \in FieldNames |->
                     IF f \in DOMAIN values THEN values[f] ELSE <<>>],
      source_count |-> 2 ]

\* The writes of a merge that unlinks record_b when it holds another golden
MergeCommitUnlinking(match_id, read, surviving_values) ==
    LET a == read.record_a_id
        b == read.record_b_id
        values == MergeValues(surviving_values, RecordData[a], RecordData[b])
        existing == ExistingGolden(read.golden_a, read.golden_b)
        golden_id == IF existing # NULL THEN existing ELSE Len(golden_records) + 1
    IN  /\ clock < MaxClock
        /\ existing = NULL => Len(golden_records) < MaxGoldens
        /\ clock' = clock + 1
        /\ golden_records' =
              IF existing # NULL
              THEN [golden_records EXCEPT ![existing] =
                       UpdateGolden(@, read.source_count, values)]
              ELSE Append(golden_records, NewGolden(values))
        /\ golden_record_id' =
              [golden_record_id EXCEPT
                  ![a] = golden_id,
                  ![b] = IF read.golden_b \notin {NULL, golden_id}
                         THEN NULL ELSE golden_id]
        /\ match_candidates' =
              [match_candidates EXCEPT ![match_id] =
                  [@ EXCEPT !.status = MERGED, !.reviewed_at = clock']]
        /\ UNCHANGED << customer_records, deleted_sources, probe >>

\* The writes of merge_records, committed together: `read` is what the
\* session loaded (the candidate's two record ids, the records'
\* golden_record_id, and the existing golden's source_count).
MergeCommit(match_id, read, surviving_values) ==
    LET a == read.record_a_id
        b == read.record_b_id
        values == MergeValues(surviving_values, RecordData[a], RecordData[b])
        existing == ExistingGolden(read.golden_a, read.golden_b)
        golden_id == IF existing # NULL THEN existing ELSE Len(golden_records) + 1
    IN  /\ clock < MaxClock
        /\ existing = NULL => Len(golden_records) < MaxGoldens
        /\ clock' = clock + 1
        /\ golden_records' =
              IF existing # NULL
              THEN [golden_records EXCEPT ![existing] =
                       UpdateGolden(@, read.source_count, values)]
              ELSE Append(golden_records, NewGolden(values))
        /\ golden_record_id' =
              [golden_record_id EXCEPT ![a] = golden_id, ![b] = golden_id]
        /\ match_candidates' =
              [match_candidates EXCEPT ![match_id] =
                  [@ EXCEPT !.status = MERGED, !.reviewed_at = clock']]
        /\ UNCHANGED << customer_records, deleted_sources, probe >>

\* What merge_records reads before it writes.
MergeRead(match_id) ==
    LET match == match_candidates[match_id]
        golden_a == golden_record_id[match.record_a_id]
        golden_b == golden_record_id[match.record_b_id]
        existing == ExistingGolden(golden_a, golden_b)
    IN  [ record_a_id |-> match.record_a_id,
          record_b_id |-> match.record_b_id,
          golden_a |-> golden_a,
          golden_b |-> golden_b,
          source_count |-> IF existing # NULL
                           THEN golden_records[existing].source_count ELSE 0 ]

\* POST /api/golden-records/merge, served without interleaving.  The
\* candidate's records always exist here (the requests served one at a time
\* delete no record), so only the missing candidate raises ValueError.
merge_records(match_id, surviving_values) ==
    IF match_id \notin 1..Len(match_candidates)
    THEN UNCHANGED vars   \* ValueError, answered with HTTPException(400)
    ELSE /\ MergeCommit(match_id, MergeRead(match_id), surviving_values)
         /\ UNCHANGED txn

(***************************************************************************)
(* Golden record service: promote_unmatched_to_golden                      *)
(***************************************************************************)
\* The query without its golden_record_id IS NULL filter
UnmatchedUnfiltered(records, links) == records

\* The rows with golden_record_id IS NULL, in row order
Unmatched(records, links) ==
    SelectSeq2(records, {r \in RecordIds : links[r] = NULL})

\* The pending query with only the record_a_id side of the disjunction
HasPendingAsRecordA(record, candidates) ==
    \E i \in 1..Len(candidates) :
        /\ candidates[i].record_a_id = record
        /\ candidates[i].status = PENDING

\* Whether a PENDING candidate references the record on either side
HasPending(record, candidates) ==
    \E i \in 1..Len(candidates) :
        /\ (candidates[i].record_a_id = record \/ candidates[i].record_b_id = record)
        /\ candidates[i].status = PENDING

\* GoldenRecord(source_count=1, **{f: getattr(record, f)})
create_golden_from_single(record) ==
    [ fields |-> RecordData[record], source_count |-> 1 ]

\* The loop linking every record to a golden it never adds
RECURSIVE PromoteLoopNoAdd(_, _, _)
PromoteLoopNoAdd(unmatched, candidates, acc) ==
    IF unmatched = <<>> THEN acc
    ELSE LET record == Head(unmatched)
         IN  IF ~HasPending(record, candidates)
             THEN PromoteLoopNoAdd(Tail(unmatched), candidates,
                    [ goldens |-> acc.goldens,
                      links |-> [acc.links EXCEPT ![record] = Len(acc.goldens) + 1],
                      count |-> acc.count + 1 ])
             ELSE PromoteLoopNoAdd(Tail(unmatched), candidates, acc)

\* The loop of promote_unmatched_to_golden: every iteration that finds no
\* pending candidate creates and commits one golden and links the record.
RECURSIVE PromoteLoop(_, _, _)
PromoteLoop(unmatched, candidates, acc) ==
    IF unmatched = <<>> THEN acc
    ELSE LET record == Head(unmatched)
         IN  IF ~HasPending(record, candidates)
             THEN PromoteLoop(Tail(unmatched), candidates,
                    [ goldens |-> Append(acc.goldens, create_golden_from_single(record)),
                      links |-> [acc.links EXCEPT ![record] = Len(acc.goldens) + 1],
                      count |-> acc.count + 1 ])
             ELSE PromoteLoop(Tail(unmatched), candidates, acc)

\* The promotion that serves only the first of the unlinked rows
PromoteRunHeadOnly(records, links, candidates, goldens) ==
    LET unmatched == Unmatched(records, links)
    IN  PromoteLoop(IF unmatched = <<>> THEN <<>> ELSE <<Head(unmatched)>>,
                    candidates,
                    [goldens |-> goldens, links |-> links, count |-> 0])

\* promote_unmatched_to_golden on a store: the golden rows and the links it
\* leaves, and the count it returns
PromoteRun(records, links, candidates, goldens) ==
    PromoteLoop(Unmatched(records, links), candidates,
                [goldens |-> goldens, links |-> links, count |-> 0])

\* POST /api/golden-records/promote-unmatched
promote_unmatched_to_golden ==
    LET done == PromoteRun(customer_records, golden_record_id,
                           match_candidates, golden_records)
    IN  /\ Len(done.goldens) <= MaxGoldens
        /\ golden_records' = done.goldens
        /\ golden_record_id' = done.links
        /\ UNCHANGED << customer_records, match_candidates, clock, txn,
                    deleted_sources, probe >>

(***************************************************************************)
(* Requests served one at a time                                           *)
(***************************************************************************)
Next ==
    \/ \E s \in Sources : ImportRecords(s)
    \/ \E s \in Sources \cup {NULL}, t \in Thresholds, w \in WeightChoices :
          RunMatching(s, t, w)
    \/ \E m \in 1..(Len(match_candidates) + 1), st \in ReviewStatuses, n \in NotesChoices :
          review_match(m, st, n)
    \/ \E m \in 1..(Len(match_candidates) + 1), sv \in SurvivingChoices :
          merge_records(m, sv)
    \/ promote_unmatched_to_golden

Spec == Init /\ [][Next]_vars


(***************************************************************************)
(* Requests served by concurrent workers.  Every request runs in its own   *)
(* session: it first reads (the queries of the handler), and its writes    *)
(* reach the store when it commits.  Requests of other workers may commit  *)
(* between the two.                                                        *)
(***************************************************************************)
\* merge_records up to its last query: the session holds what it read
BeginMerge(w, match_id, surviving_values) ==
    /\ txn[w] = Idle
    /\ match_id \in 1..Len(match_candidates)
    /\ txn' = [txn EXCEPT ![w] =
                  [ pc |-> "merge", match_id |-> match_id,
                    read |-> MergeRead(match_id),
                    surviving_values |-> surviving_values ]]
    /\ UNCHANGED << store, clock, probe >>

\* merge_records from `if existing_golden:` to db.commit()
CommitMerge(w) ==
    /\ txn[w].pc = "merge"
    /\ MergeCommit(txn[w].match_id, txn[w].read, txn[w].surviving_values)
    /\ txn' = [txn EXCEPT ![w] = Idle]

\* find_matches up to its last query: the rows of customer_records and the
\* pairs of match_candidates are loaded
BeginMatching(w, source_id, threshold, field_weights) ==
    /\ txn[w] = Idle
    /\ txn' = [txn EXCEPT ![w] =
                  [ pc |-> "match", records |-> customer_records,
                    candidates |-> match_candidates,
                    source_id |-> source_id, threshold |-> threshold,
                    field_weights |-> field_weights ]]
    /\ UNCHANGED << store, clock, probe >>

\* find_matches from the loop over the pairs to db.commit()
CommitMatching(w) ==
    /\ txn[w].pc = "match"
    /\ LET matches == find_matches(txn[w].records, txn[w].candidates,
                                   txn[w].source_id, txn[w].threshold,
                                   txn[w].field_weights)
       IN  /\ Len(match_candidates) + Len(matches) <= MaxCandidates
           /\ match_candidates' = match_candidates \o matches
    /\ txn' = [txn EXCEPT ![w] = Idle]
    /\ UNCHANGED << customer_records, golden_record_id, golden_records, clock,
                 deleted_sources, probe >>

\* The concurrent requests all use one threshold, the default weights and
\* the automatic selection of values.
ConcThresholds == {5000}

NextConc ==
    \/ \E s \in Sources : ImportRecords(s)
    \/ \E w \in Workers, s \in Sources \cup {NULL}, t \in ConcThresholds :
          BeginMatching(w, s, t, NoWeights)
    \/ \E w \in Workers : CommitMatching(w)
    \/ \E w \in Workers, m \in 1..MaxCandidates : BeginMerge(w, m, NoValues)
    \/ \E w \in Workers : CommitMerge(w)

SpecConc == Init /\ [][NextConc]_vars


(***************************************************************************)
(* Requests served step by step, with failures.  One worker serves a       *)
(* request at a time; imports and deletions of sources come from other     *)
(* clients and may commit between two steps of the request.  A request     *)
(* ends "done" or "failed"; its session is then closed.                    *)
(***************************************************************************)
StepWorkers == {1}

\* MatchingConfig.threshold is a float without bounds: the requests carry
\* -0.5, 0.5 and 1.5
StepThresholds == {-5000, 5000, 15000}

\* The request ends with an exception
Failed(request, error) ==
    [f \in DOMAIN request \cup {"error"} |->
        IF f = "pc" THEN "failed"
        ELSE IF f = "error" THEN error
        ELSE request[f]]

\* The request ends with its answer
Done(request) == [request EXCEPT !.pc = "done"]

\* DELETE /api/upload/{source_id}: the data_sources row goes, and with it
\* (cascade) the source's rows of customer_records.  Candidates and goldens
\* stay.
DeleteSource(source_id) ==
    /\ source_id \notin deleted_sources   \* HTTPException(404)
    /\ deleted_sources' = deleted_sources \cup {source_id}
    /\ customer_records' =
          SelectSeq2(customer_records, {r \in RecordIds : SourceOf(r) # source_id})
    /\ golden_record_id' =
          [r \in RecordIds |->
              IF SourceOf(r) = source_id THEN NULL ELSE golden_record_id[r]]
    /\ UNCHANGED << match_candidates, golden_records, clock, txn, probe >>

\* merge_records whose second ValueError has been removed
StartMergeUnchecked(w, match_id, surviving_values) ==
    /\ txn[w] = Idle
    /\ IF match_id \notin 1..Len(match_candidates)
       THEN txn' = [txn EXCEPT ![w] =
                       [ pc |-> "failed", request |-> "merge", match_id |-> match_id,
                         error |-> "not_found" ]]
       ELSE txn' = [txn EXCEPT ![w] =
                       [ pc |-> "merge", request |-> "merge", match_id |-> match_id,
                         read |-> MergeRead(match_id),
                         surviving_values |-> surviving_values ]]
    /\ UNCHANGED << store, clock, probe >>

\* merge_records up to its last query.  A missing candidate or a missing
\* record raises ValueError("... not found") before anything is written.
StartMerge(w, match_id, surviving_values) ==
    /\ txn[w] = Idle
    /\ IF \/ match_id \notin 1..Len(match_candidates)
          \/ match_candidates[match_id].record_a_id \notin Range(customer_records)
          \/ match_candidates[match_id].record_b_id \notin Range(customer_records)
       THEN txn' = [txn EXCEPT ![w] =
                       [ pc |-> "failed", request |-> "merge", match_id |-> match_id,
                         error |-> "not_found" ]]
       ELSE txn' = [txn EXCEPT ![w] =
                       [ pc |-> "merge", request |-> "merge", match_id |-> match_id,
                         read |-> MergeRead(match_id),
                         surviving_values |-> surviving_values ]]
    /\ UNCHANGED << store, clock, probe >>

\* merge_records from `if existing_golden:` to db.commit().  The UPDATE of a
\* record whose row was deleted since it was read matches no row: the flush
\* raises and nothing of the session is committed.
WriteMerge(w) ==
    /\ txn[w].pc = "merge"
    /\ IF /\ txn[w].read.record_a_id \in Range(customer_records)
          /\ txn[w].read.record_b_id \in Range(customer_records)
       THEN /\ MergeCommit(txn[w].match_id, txn[w].read, txn[w].surviving_values)
            /\ txn' = [txn EXCEPT ![w] = Done(@)]
       ELSE /\ txn' = [txn EXCEPT ![w] = Failed(@, "stale")]
            /\ UNCHANGED << store, clock, probe >>

\* find_matches up to the loop: the pairs and existing_pairs are built
StartRun(w, source_id, threshold, field_weights) ==
    /\ txn[w] = Idle
    /\ txn' = [txn EXCEPT ![w] =
                  [ pc |-> "run", request |-> "run",
                    pairs |-> MatchPairs(customer_records, source_id),
                    existing_pairs |-> ExistingPairs(match_candidates),
                    threshold |-> threshold, field_weights |-> field_weights,
                    matches |-> <<>> ]]
    /\ UNCHANGED << store, clock, probe >>

\* One iteration of the loop, committing the candidate it emits
EvaluatePairCommitting(w) ==
    /\ txn[w].pc = "run"
    /\ txn[w].pairs # <<>>
    /\ LET a == Head(txn[w].pairs)[1]
           b == Head(txn[w].pairs)[2]
           cmp == CompareStored(a, b, txn[w].field_weights)
       IN  IF <<a, b>> \notin txn[w].existing_pairs
              /\ cmp.overall_score >= txn[w].threshold
           THEN /\ Len(match_candidates) < MaxCandidates
                /\ match_candidates' = Append(match_candidates, NewCandidate(a, b, cmp))
                /\ txn' = [txn EXCEPT ![w] =
                              [@ EXCEPT !.pairs = Tail(@),
                                        !.existing_pairs = @ \cup {<<a, b>>, <<b, a>>}]]
           ELSE /\ txn' = [txn EXCEPT ![w].pairs = Tail(@)]
                /\ UNCHANGED match_candidates
    /\ UNCHANGED << customer_records, golden_record_id, golden_records,
                    deleted_sources, clock, probe >>

\* One iteration of the loop of find_matches: a candidate it emits is added
\* to the session (db.add) and to `matches`; nothing is committed.
EvaluatePair(w) ==
    /\ txn[w].pc = "run"
    /\ txn[w].pairs # <<>>
    /\ LET a == Head(txn[w].pairs)[1]
           b == Head(txn[w].pairs)[2]
           cmp == CompareStored(a, b, txn[w].field_weights)
       IN  IF <<a, b>> \notin txn[w].existing_pairs
              /\ cmp.overall_score >= txn[w].threshold
           THEN txn' = [txn EXCEPT ![w] =
                           [@ EXCEPT !.pairs = Tail(@),
                                     !.existing_pairs = @ \cup {<<a, b>>, <<b, a>>},
                                     !.matches = Append(@, NewCandidate(a, b, cmp))]]
           ELSE txn' = [txn EXCEPT ![w].pairs = Tail(@)]
    /\ UNCHANGED << store, clock, probe >>

\* db.commit() after the loop: the candidates of the session reach the store
FinishRun(w) ==
    /\ txn[w].pc = "run"
    /\ txn[w].pairs = <<>>
    /\ Len(match_candidates) + Len(txn[w].matches) <= MaxCandidates
    /\ match_candidates' = match_candidates \o txn[w].matches
    /\ txn' = [txn EXCEPT ![w] = Done(@)]
    /\ UNCHANGED << customer_records, golden_record_id, golden_records,
                    deleted_sources, clock, probe >>

\* promote_unmatched_to_golden up to its loop: the unlinked rows are loaded
StartPromote(w) ==
    /\ txn[w] = Idle
    /\ txn' = [txn EXCEPT ![w] =
                  [ pc |-> "promote", request |-> "promote",
                    unmatched |-> Unmatched(customer_records, golden_record_id),
                    count |-> 0, created |-> {} ]]
    /\ UNCHANGED << store, clock, probe >>

\* One iteration of the loop of promote_unmatched_to_golden.  A record with
\* a pending candidate is skipped; otherwise create_golden_from_single adds
\* the golden, links the record and commits.  A record whose row has been
\* deleted since the rows were loaded ends the request with an exception
\* (ValueError in create_golden_from_single, or the refresh of the expired
\* row when record.id is read).
PromoteRecord(w) ==
    /\ txn[w].pc = "promote"
    /\ txn[w].unmatched # <<>>
    /\ LET record == Head(txn[w].unmatched)
           pending == HasPending(record, match_candidates)
           golden_id == Len(golden_records) + 1
       IN  \/ /\ pending
              /\ txn' = [txn EXCEPT ![w].unmatched = Tail(@)]
              /\ UNCHANGED store
           \/ /\ ~pending
              /\ record \in Range(customer_records)
              /\ Len(golden_records) < MaxGoldens
              /\ golden_records' =
                    Append(golden_records, create_golden_from_single(record))
              /\ golden_record_id' = [golden_record_id EXCEPT ![record] = golden_id]
              /\ txn' = [txn EXCEPT ![w] =
                            [@ EXCEPT !.unmatched = Tail(@),
                                      !.count = @ + 1,
                                      !.created = @ \cup {golden_id}]]
              /\ UNCHANGED << customer_records, match_candidates, deleted_sources >>
           \/ /\ record \notin Range(customer_records)
              /\ txn' = [txn EXCEPT ![w] = Failed(@, "not_found")]
              /\ UNCHANGED store
    /\ UNCHANGED << clock, probe >>

\* return count
FinishPromote(w) ==
    /\ txn[w].pc = "promote"
    /\ txn[w].unmatched = <<>>
    /\ txn' = [txn EXCEPT ![w] = Done(@)]
    /\ UNCHANGED << store, clock, probe >>

\* A persistence error or a cancellation between two steps of a request:
\* the session is closed without a commit, and what it had not committed
\* is discarded.
Abort(w) ==
    /\ txn[w].pc \in {"merge", "run", "promote"}
    /\ txn' = [txn EXCEPT ![w] = Failed(@, "storage")]
    /\ UNCHANGED << store, clock, probe >>

\* The handler has answered; the worker takes the next request
Close(w) ==
    /\ txn[w].pc \in {"done", "failed"}
    /\ txn' = [txn EXCEPT ![w] = Idle]
    /\ UNCHANGED << store, clock, probe >>

\* The requests use the default weights and the automatic selection of
\* values.
NextSteps ==
    \/ \E s \in Sources : ImportRecords(s)
    \/ \E s \in Sources : DeleteSource(s)
    \/ \E w \in StepWorkers, m \in 1..(Len(match_candidates) + 1) :
          StartMerge(w, m, NoValues)
    \/ \E w \in StepWorkers : WriteMerge(w)
    \/ \E w \in StepWorkers, s \in Sources \cup {NULL}, t \in StepThresholds :
          StartRun(w, s, t, NoWeights)
    \/ \E w \in StepWorkers : EvaluatePair(w)
    \/ \E w \in StepWorkers : FinishRun(w)
    \/ \E w \in StepWorkers : StartPromote(w)
    \/ \E w \in StepWorkers : PromoteRecord(w)
    \/ \E w \in StepWorkers : FinishPromote(w)
    \/ \E w \in StepWorkers : Abort(w)
    \/ \E w \in StepWorkers : Close(w)

SpecSteps == Init /\ [][NextSteps]_vars


(***************************************************************************)
(* The record comparator on its own: compare_records is called on two      *)
(* records and a weight map, and the call's result is kept in probe.       *)
(***************************************************************************)
\* The records the comparator is called on
CompareCatalog ==
    << [NoFields EXCEPT !["email"] = <<"a", "@", "x">>],
       [NoFields EXCEPT !["email"] = <<"A", "@", "X">>],
       [NoFields EXCEPT !["email"] = <<"a", "@", "x">>,
                        !["phone"] = <<"5", "5", "-", "0", "1">>],
       [NoFields EXCEPT !["phone"] = <<"1", "-", "5", "5", "-", "0", "1">>],
       [NoFields EXCEPT !["phone"] = <<"n", "/", "a">>],
       [NoFields EXCEPT !["email"] = <<"b", "@", "x">>,
                        !["phone"] = <<"5", "7">>],
       [NoFields EXCEPT !["phone"] =
           <<"+", "1", "-", "5", "5", "5", "-", "0", "1", "0", "1">>],
       [NoFields EXCEPT !["phone"] = <<"5", "5", "5", "-", "0", "1", "0", "1">>],
       [NoFields EXCEPT !["city"] = <<"a", "b", "x">>],
       [NoFields EXCEPT !["city"] = <<"A", "b">>],
       [NoFields EXCEPT !["email"] = <<"a", "@", "x">>,
                        !["city"] = <<"x", "a", "b", "b">>],
       [NoFields EXCEPT !["website"] =
           <<"h", "t", "t", "p", ":", "/", "/", "w", "w", "w", ".", "a", ".", "x", "/">>],
       [NoFields EXCEPT !["website"] = <<"a", ".", "x">>],
       [NoFields EXCEPT !["website"] = <<"a", ".", "x", "/", "/">>],
       [NoFields EXCEPT !["website"] = <<"b", ".", "w", "w", "w", ".", "x">>],
       [NoFields EXCEPT !["website"] = <<"b", ".", "x">>] >>

\* The weight maps of the calls, in hundredths: None, a one-field map, and
\* a map with a negative weight (MatchingConfig.field_weights takes any
\* float).
CompareWeightChoices ==
    { NoWeights,
      [f \in {"phone"} |-> 100],
      [f \in {"email", "phone"} |-> IF f = "email" THEN 100 ELSE -50] }

InitCompare ==
    /\ customer_records = <<>>
    /\ golden_record_id = [r \in RecordIds |-> NULL]
    /\ match_candidates = <<>>
    /\ golden_records = <<>>
    /\ clock = 0
    /\ txn = [w \in Workers |-> Idle]
    /\ deleted_sources = {}
    /\ probe \in {[pc |-> "input", record_a |-> a, record_b |-> b, field_weights |-> w] :
                     a \in Range(CompareCatalog), b \in Range(CompareCatalog),
                     w \in CompareWeightChoices}

\* overall_score, field_scores = compare_records(record_a, record_b, field_weights)
CompareRecords ==
    /\ probe.pc = "input"
    /\ LET result == compare_records(probe.record_a, probe.record_b,
                                     probe.field_weights)
       IN  probe' = [ pc |-> "done",
                      record_a |-> probe.record_a,
                      record_b |-> probe.record_b,
                      field_weights |-> probe.field_weights,
                      overall_score |-> result.overall_score,
                      field_scores |-> result.field_scores ]
    /\ UNCHANGED << store, clock, txn >>

NextCompare == CompareRecords

SpecCompare == InitCompare /\ [][NextCompare]_vars

(***************************************************************************)
(* The automatic selection of values on its own: auto_select_best_values   *)
(* is called on two records, and the call's result is kept in probe.       *)
(***************************************************************************)
InitSelect ==
    /\ customer_records = <<>>
    /\ golden_record_id = [r \in RecordIds |-> NULL]
    /\ match_candidates = <<>>
    /\ golden_records = <<>>
    /\ clock = 0
    /\ txn = [w \in Workers |-> Idle]
    /\ deleted_sources = {}
    /\ probe \in {[pc |-> "input", record_a |-> a, record_b |-> b] :
                     a \in Range(CompareCatalog), b \in Range(CompareCatalog)}

\* best = auto_select_best_values(record_a, record_b)
SelectBestValues ==
    /\ probe.pc = "input"
    /\ probe' = [ pc |-> "selected",
                  record_a |-> probe.record_a,
                  record_b |-> probe.record_b,
                  best |-> auto_select_best_values(probe.record_a, probe.record_b) ]
    /\ UNCHANGED << store, clock, txn >>

NextSelect == SelectBestValues

SpecSelect == InitSelect /\ [][NextSelect]_vars

(***************************************************************************)
(* Properties                                                              *)
(***************************************************************************)
CandidateIds == 1..Len(match_candidates)

GoldenIds == 1..Len(golden_records)

\* The records linked to golden g
LinkedTo(g) == {r \in Range(customer_records) : golden_record_id[r] = g}

\* The unordered pair of candidate i
PairOf(i) == {match_candidates[i].record_a_id, match_candidates[i].record_b_id}

\* C1: every GoldenRecord has source_count >= 1, and source_count equal to
\* the number of CustomerRecords whose golden_record_id is its id.
C1_SourceCountIsLinkCount ==
    \A g \in GoldenIds :
        /\ golden_records[g].source_count >= 1
        /\ golden_records[g].source_count = Cardinality(LinkedTo(g))

\* The two records of candidate m are linked to two different goldens
ConflictingGoldens(m) ==
    LET ga == golden_record_id[match_candidates[m].record_a_id]
        gb == golden_record_id[match_candidates[m].record_b_id]
    IN  ga # NULL /\ gb # NULL /\ ga # gb

\* C2: a merge of a candidate whose two records are linked to two different
\* goldens mutates nothing: links, goldens and candidates stay as they were.
C2_ConflictingMergeMutatesNothing ==
    [][\A m \in CandidateIds, sv \in SurvivingChoices :
          (ConflictingGoldens(m) /\ merge_records(m, sv)) =>
              UNCHANGED << golden_record_id, golden_records, match_candidates >>]_vars

\* C3: once a candidate's status is REJECTED or MERGED, no step changes it.
C3_TerminalMonotonicity ==
    [][\A m \in CandidateIds :
          match_candidates[m].status \in {REJECTED, MERGED} =>
              match_candidates'[m].status = match_candidates[m].status]_vars

\* C4: a merge of a candidate whose status is REJECTED or MERGED creates no
\* golden, changes no source_count and changes no golden_record_id.
C4_TerminalMergeRefused ==
    [][\A m \in CandidateIds, sv \in SurvivingChoices :
          (match_candidates[m].status \in {REJECTED, MERGED} /\ merge_records(m, sv)) =>
              UNCHANGED << golden_record_id, golden_records >>]_vars

\* C5: a review of a candidate whose status is not PENDING leaves its
\* status, reviewed_at and notes unchanged.
C5_ReviewOnlyFromPending ==
    [][\A m \in CandidateIds, st \in ReviewStatuses, n \in NotesChoices :
          (match_candidates[m].status # PENDING /\ review_match(m, st, n)) =>
              /\ match_candidates'[m].status = match_candidates[m].status
              /\ match_candidates'[m].reviewed_at = match_candidates[m].reviewed_at
              /\ match_candidates'[m].notes = match_candidates[m].notes]_vars

\* C6: with the requests served one at a time, no two MatchCandidates
\* reference the same unordered pair of records.
C6_NoDuplicatePairs ==
    \A i, j \in CandidateIds : i # j => PairOf(i) # PairOf(j)

\* C6 witness: a candidate (2, 1), already reviewed or merged, is followed by
\* a candidate (1, 3).  One run orders all its pairs the same way, so a later
\* run met the pair {1, 2} as (1, 2) and did not emit it.
C6_Witness ==
    \E i, j \in CandidateIds :
        /\ i < j
        /\ match_candidates[i].record_a_id = 2 /\ match_candidates[i].record_b_id = 1
        /\ match_candidates[i].status # PENDING
        /\ match_candidates[j].record_a_id = 1 /\ match_candidates[j].record_b_id = 3

\* What worker w read for its merge no longer holds in the store
StaleMerge(w) ==
    /\ txn[w].pc = "merge"
    /\ \/ golden_record_id[txn[w].read.record_a_id] # txn[w].read.golden_a
       \/ golden_record_id[txn[w].read.record_b_id] # txn[w].read.golden_b

\* C7: of two concurrent merges over the same or overlapping records at most
\* one creates a GoldenRecord: a merge that commits after another merge has
\* linked one of its records creates no golden.
C7_StaleMergeCreatesNoGolden ==
    [][\A w \in Workers :
          (StaleMerge(w) /\ CommitMerge(w)) =>
              Len(golden_records') = Len(golden_records)]_vars

\* C8: also when matching runs interleave, the store never holds two
\* MatchCandidates for the same unordered pair.
C8_NoDuplicatePairsConcurrent ==
    Cardinality({PairOf(i) : i \in CandidateIds}) = Len(match_candidates)

\* The records promote_unmatched has to promote: unlinked, and referenced by
\* no PENDING candidate as record_a or as record_b.
Promotable ==
    {r \in Range(customer_records) :
        /\ golden_record_id[r] = NULL
        /\ \A i \in CandidateIds :
              match_candidates[i].status = PENDING => r \notin PairOf(i)}

\* C9: a second promote_unmatched right after a first creates no golden and
\* returns 0.
C9_PromotionIdempotent ==
    [][promote_unmatched_to_golden =>
          LET again == PromoteRun(customer_records', golden_record_id',
                                  match_candidates', golden_records')
          IN  /\ again.count = 0
              /\ again.goldens = golden_records'
              /\ again.links = golden_record_id']_vars

\* C9 witness: a promotion has run (a golden of one source exists) in a
\* store where another record stays unlinked behind a PENDING candidate.
C9_Witness ==
    /\ \E r \in Range(customer_records) :
          /\ golden_record_id[r] # NULL
          /\ golden_records[golden_record_id[r]].source_count = 1
    /\ \E r \in Range(customer_records) :
          /\ golden_record_id[r] = NULL
          /\ HasPending(r, match_candidates)
    /\ Promotable = {}

\* C10: promote_unmatched gives every promotable record a new golden of its
\* own with source_count 1 and the record's fields, links the record to it,
\* touches no other record, golden or candidate, and returns the number of
\* goldens it created.
C10_PromotesExactlyUnmatched ==
    [][promote_unmatched_to_golden =>
          LET created == (Len(golden_records) + 1)..Len(golden_records')
          IN  /\ \A r \in Promotable :
                    /\ golden_record_id'[r] \in created
                    /\ golden_records'[golden_record_id'[r]] =
                          [fields |-> RecordData[r], source_count |-> 1]
              /\ \A r, q \in Promotable :
                    r # q => golden_record_id'[r] # golden_record_id'[q]
              /\ \A r \in RecordIds \ Promotable :
                    golden_record_id'[r] = golden_record_id[r]
              /\ Len(golden_records') = Len(golden_records) + Cardinality(Promotable)
              /\ \A g \in GoldenIds : golden_records'[g] = golden_records[g]
              /\ match_candidates' = match_candidates
              /\ PromoteRun(customer_records, golden_record_id,
                            match_candidates, golden_records).count
                    = Cardinality(Promotable)]_vars

\* C10 witness: a promotion after a merge: a golden of two sources, and a
\* younger golden of one source that carries the fields of the one record
\* linked to it.
C10_Witness ==
    \E g, h \in GoldenIds, r \in Range(customer_records) :
        /\ g < h
        /\ golden_records[g].source_count = 2
        /\ Cardinality(LinkedTo(g)) = 2
        /\ golden_records[h] = [fields |-> RecordData[r], source_count |-> 1]
        /\ LinkedTo(h) = {r}

\* C11: a merge of a candidate whose two records are both unlinked creates
\* exactly one new GoldenRecord, with source_count 2, links both records to
\* it (and no other record), and leaves the candidate MERGED with
\* reviewed_at set.
C11_MergeCreatesGolden ==
    [][\A m \in CandidateIds, sv \in SurvivingChoices :
          LET a == match_candidates[m].record_a_id
              b == match_candidates[m].record_b_id
              new == Len(golden_records) + 1
          IN  (/\ golden_record_id[a] = NULL
               /\ golden_record_id[b] = NULL
               /\ merge_records(m, sv)) =>
                  /\ Len(golden_records') = new
                  /\ \A g \in GoldenIds : golden_records'[g] = golden_records[g]
                  /\ golden_records'[new].source_count = 2
                  /\ golden_record_id'[a] = new
                  /\ golden_record_id'[b] = new
                  /\ \A r \in RecordIds \ {a, b} :
                        golden_record_id'[r] = golden_record_id[r]
                  /\ match_candidates'[m].status = MERGED
                  /\ match_candidates'[m].reviewed_at # NULL]_vars

\* C11 witness: the only candidate, over the two records of source 2, is
\* MERGED and the only golden has source_count 2 and both records linked.
\* No promotion can have linked one of the two alone (a PENDING candidate
\* over them blocks both), so the golden was created by the merge.
C11_Witness ==
    /\ Len(match_candidates) = 1
    /\ PairOf(1) = {2, 3}
    /\ match_candidates[1].status = MERGED
    /\ match_candidates[1].reviewed_at # NULL
    /\ Len(golden_records) = 1
    /\ golden_records[1].source_count = 2
    /\ LinkedTo(1) = {2, 3}

\* C12: a merge of a candidate with exactly one record linked to a golden
\* creates no golden; on that golden it overwrites exactly the fields whose
\* value in `values` is truthy, adds one to source_count, and links both
\* records to it; every other golden and link stays as it was.
C12_MergeIntoExistingGolden ==
    [][\A m \in CandidateIds, sv \in SurvivingChoices :
          LET a == match_candidates[m].record_a_id
              b == match_candidates[m].record_b_id
              ga == golden_record_id[a]
              gb == golden_record_id[b]
              g == IF ga # NULL THEN ga ELSE gb
              values == MergeValues(sv, RecordData[a], RecordData[b])
          IN  (/\ (ga = NULL) # (gb = NULL)
               /\ merge_records(m, sv)) =>
                  /\ Len(golden_records') = Len(golden_records)
                  /\ \A f \in FieldNames :
                        golden_records'[g].fields[f] =
                            IF f \in DOMAIN values /\ values[f] # <<>>
                            THEN values[f]
                            ELSE golden_records[g].fields[f]
                  /\ golden_records'[g].source_count =
                        golden_records[g].source_count + 1
                  /\ \A h \in GoldenIds \ {g} :
                        golden_records'[h] = golden_records[h]
                  /\ golden_record_id'[a] = g
                  /\ golden_record_id'[b] = g
                  /\ \A r \in RecordIds \ {a, b} :
                        golden_record_id'[r] = golden_record_id[r]]_vars

\* C12 witness: a golden with source_count 3 and three records linked: a
\* third record was folded into a golden that already existed.
C12_Witness ==
    \E g \in GoldenIds :
        /\ golden_records[g].source_count = 3
        /\ Cardinality(LinkedTo(g)) = 3

\* The status changes of the state machine: review from PENDING, merge from
\* PENDING and from APPROVED.
AllowedTransitions ==
    { <<PENDING, APPROVED>>, <<PENDING, REJECTED>>,
      <<PENDING, MERGED>>, <<APPROVED, MERGED>> }

\* C13: a candidate is created PENDING; a merge of a PENDING or APPROVED
\* candidate yields MERGED; review(approved) and review(rejected) take
\* PENDING to APPROVED and to REJECTED; and no step changes a status in
\* any other way.
C13_StatusStateMachine ==
    [][/\ \A m \in (Len(match_candidates) + 1)..Len(match_candidates') :
              match_candidates'[m].status = PENDING
       /\ \A m \in CandidateIds, sv \in SurvivingChoices :
              (/\ match_candidates[m].status \in {PENDING, APPROVED}
               /\ merge_records(m, sv)) =>
                  match_candidates'[m].status = MERGED
       /\ \A m \in CandidateIds, st \in {APPROVED, REJECTED}, n \in NotesChoices :
              (/\ match_candidates[m].status = PENDING
               /\ review_match(m, st, n)) =>
                  match_candidates'[m].status = st
       /\ \A m \in CandidateIds :
              \/ match_candidates'[m].status = match_candidates[m].status
              \/ <<match_candidates[m].status, match_candidates'[m].status>>
                    \in AllowedTransitions]_vars

\* The value the merge planner of the specification resolves for every
\* field: the operator's where the map has the field, else the automatic one.
PlannedValues(surviving_values, record_a, record_b) ==
    [f \in FieldNames |->
        IF f \in DOMAIN surviving_values
        THEN surviving_values[f]
        ELSE auto_select_best_values(record_a, record_b)[f]]

\* C14: a merge called with operator-supplied surviving_values that
\* creates a golden gives it, for every field, the operator's value if the
\* map has the field and the value of auto_select_best_values otherwise.
C14_OperatorValuesOverrideAutoPlan ==
    [][\A m \in CandidateIds, sv \in SurvivingChoices \ {NoValues} :
          LET a == match_candidates[m].record_a_id
              b == match_candidates[m].record_b_id
          IN  (/\ golden_record_id[a] = NULL
               /\ golden_record_id[b] = NULL
               /\ merge_records(m, sv)) =>
                  golden_records'[Len(golden_records')].fields =
                      PlannedValues(sv, RecordData[a], RecordData[b])]_vars

\* The values a merge uses: a non-empty operator's map alone (a field it
\* leaves out has no value), and the automatic selection only when the map
\* is empty.
OperatorOrAutoValues(surviving_values, record_a, record_b) ==
    IF surviving_values # NoValues
    THEN [f \in FieldNames |->
             IF f \in DOMAIN surviving_values THEN surviving_values[f] ELSE <<>>]
    ELSE auto_select_best_values(record_a, record_b)

\* C14 as amended: with a non-empty surviving_values the value of a field
\* is the operator's if the map has the field and none otherwise; with an
\* empty map it is the automatic one.  A created golden gets these values;
\* an existing golden gets those that are truthy and keeps its own
\* elsewhere.
C14_OperatorValuesReplaceAutoPlan ==
    [][\A m \in CandidateIds, sv \in SurvivingChoices :
          LET a == match_candidates[m].record_a_id
              b == match_candidates[m].record_b_id
              ga == golden_record_id[a]
              gb == golden_record_id[b]
              g == IF ga # NULL THEN ga ELSE gb
              values == OperatorOrAutoValues(sv, RecordData[a], RecordData[b])
          IN  merge_records(m, sv) =>
                  IF ga = NULL /\ gb = NULL
                  THEN golden_records'[Len(golden_records')].fields = values
                  ELSE \A f \in FieldNames :
                          golden_records'[g].fields[f] =
                              IF values[f] # <<>> THEN values[f]
                              ELSE golden_records[g].fields[f]]_vars

\* C14 witness: the candidate over records 2 and 3 was merged with the
\* operator's map {email}: the created golden has the operator's email and
\* no phone, although record 3 has one.
C14_Witness ==
    /\ Len(match_candidates) = 1
    /\ PairOf(1) = {2, 3}
    /\ match_candidates[1].status = MERGED
    /\ Len(golden_records) = 1
    /\ golden_records[1].fields =
          [NoFields EXCEPT !["email"] = <<"o", "@", "x">>]
    /\ RecordData[3]["phone"] # <<>>

\* C15: a review changes only the reviewed candidate's status, reviewed_at
\* and notes: the records, their golden_record_id, the goldens, the other
\* candidates and the candidate's other attributes stay as they were.
C15_ReviewTouchesOnlyItsCandidate ==
    [][\A m \in CandidateIds, st \in ReviewStatuses, n \in NotesChoices :
          review_match(m, st, n) =>
              /\ UNCHANGED << customer_records, golden_record_id, golden_records >>
              /\ Len(match_candidates') = Len(match_candidates)
              /\ \A i \in CandidateIds \ {m} :
                    match_candidates'[i] = match_candidates[i]
              /\ match_candidates'[m] =
                    [match_candidates[m] EXCEPT
                        !.status = match_candidates'[m].status,
                        !.reviewed_at = match_candidates'[m].reviewed_at,
                        !.notes = match_candidates'[m].notes]]_vars

\* C15 witness: a candidate has been reviewed (APPROVED or REJECTED, with
\* the operator's notes) next to a PENDING candidate, and its two records
\* are still unlinked although a golden exists.
C15_Witness ==
    \E i, j \in CandidateIds :
        /\ match_candidates[i].status \in {APPROVED, REJECTED}
        /\ match_candidates[i].reviewed_at # NULL
        /\ match_candidates[i].notes # NoNotes
        /\ golden_record_id[match_candidates[i].record_a_id] = NULL
        /\ golden_record_id[match_candidates[i].record_b_id] = NULL
        /\ match_candidates[j].status = PENDING
        /\ golden_records # <<>>

ScopeChoices == Sources \cup {NULL}

\* The pairs a run over the current store generates and the dedup set does
\* not block
OpenPairs(source_id) ==
    {p \in Range(MatchPairs(customer_records, source_id)) :
        \A i \in CandidateIds : PairOf(i) # {p[1], p[2]}}

\* The open pairs whose overall_score reaches the threshold
PairsToEmit(source_id, threshold, field_weights) ==
    {p \in OpenPairs(source_id) :
        CompareStored(p[1], p[2], field_weights).overall_score >= threshold}

\* C16: a matching run creates a candidate for an unblocked pair if and
\* only if the pair's overall_score >= threshold; every candidate it
\* creates is PENDING with match_method "rule_based_v1" and the computed
\* scores; match_count is the number of candidates created.  The first
\* conjunct states it of the list find_matches returns in every reachable
\* store (match_count is its length; a run that finds nothing leaves the
\* store as it was), the second of the rows a run step adds to the store.
C16_EmitsAtOrAboveThreshold ==
    /\ [](\A s \in ScopeChoices, t \in Thresholds, w \in WeightChoices :
            LET matches == find_matches(customer_records, match_candidates, s, t, w)
            IN  /\ \A p \in OpenPairs(s) :
                      (\E i \in 1..Len(matches) :
                          /\ matches[i].record_a_id = p[1]
                          /\ matches[i].record_b_id = p[2])
                      <=> CompareStored(p[1], p[2], w).overall_score >= t
                /\ \A i \in 1..Len(matches) :
                      /\ <<matches[i].record_a_id, matches[i].record_b_id>>
                            \in OpenPairs(s)
                      /\ matches[i].status = PENDING
                      /\ matches[i].match_method = "rule_based_v1"
                      /\ matches[i].overall_score >= t
                /\ Len(matches) = Cardinality(PairsToEmit(s, t, w)))
    /\ [][\A s \in ScopeChoices, t \in Thresholds, w \in WeightChoices :
            (/\ Len(match_candidates') > Len(match_candidates)
             /\ RunMatching(s, t, w)) =>
                LET created == (Len(match_candidates) + 1)..Len(match_candidates')
                IN  /\ \A p \in OpenPairs(s) :
                          (\E i \in created :
                              /\ match_candidates'[i].record_a_id = p[1]
                              /\ match_candidates'[i].record_b_id = p[2])
                          <=> CompareStored(p[1], p[2], w).overall_score >= t
                    /\ \A i \in created :
                          /\ match_candidates'[i].status = PENDING
                          /\ match_candidates'[i].match_method = "rule_based_v1"
                          /\ match_candidates'[i].overall_score =
                                CompareStored(match_candidates'[i].record_a_id,
                                              match_candidates'[i].record_b_id,
                                              w).overall_score
                    /\ Cardinality(created) = Cardinality(PairsToEmit(s, t, w))]_vars

\* C16 witness: the three records are stored and the one candidate is the
\* pair {1, 2}, whose score is 1.0.  A run at threshold 0.5 that met the
\* pair {1, 2} met {1, 3} too and would have emitted it (score 0.6667), so
\* the run was at threshold 1.0: the pair with the score equal to the
\* threshold was emitted and the pairs below it were not.
C16_Witness ==
    /\ Len(customer_records) = 3
    /\ Len(match_candidates) = 1
    /\ PairOf(1) = {1, 2}
    /\ match_candidates[1].overall_score = 10000
    /\ match_candidates[1].status = PENDING
    /\ CompareStored(1, 3, NoWeights).overall_score = 6667

CandidatesOver(candidates, r, q) ==
    {i \in 1..Len(candidates) :
        {candidates[i].record_a_id, candidates[i].record_b_id} = {r, q}}

\* C18: after an unscoped run every pair of distinct records whose
\* overall_score >= threshold has exactly one candidate in the store,
\* whatever the sources of the two records.  The first conjunct states it
\* of the store plus the list find_matches returns, in every reachable
\* store; the second of the store after every unscoped run step.
C18_UnscopedRunCoversEveryPair ==
    /\ [](\A t \in Thresholds, w \in WeightChoices :
            LET after == match_candidates \o
                    find_matches(customer_records, match_candidates, NULL, t, w)
            IN  \A r, q \in Range(customer_records) :
                    (r # q /\ CompareStored(r, q, w).overall_score >= t) =>
                        Cardinality(CandidatesOver(after, r, q)) = 1)
    /\ [][\A t \in Thresholds, w \in WeightChoices :
            (/\ Len(match_candidates') > Len(match_candidates)
             /\ RunMatching(NULL, t, w)) =>
                \A r, q \in Range(customer_records) :
                    (r # q /\ CompareStored(r, q, w).overall_score >= t) =>
                        Cardinality(CandidatesOver(match_candidates', r, q)) = 1]_vars

\* C18 witness: each of the three pairs has its candidate, the pair {2, 3}
\* of two records of one source included; only an unscoped run emits that
\* one.
C18_Witness ==
    /\ Len(match_candidates) = 3
    /\ \A r, q \in RecordIds :
          r # q => Cardinality(CandidatesOver(match_candidates, r, q)) = 1
    /\ SourceOf(2) = SourceOf(3)

\* C19: no step removes a candidate or gives a row another pair, and a
\* matching run only adds rows: the candidates already stored (status,
\* scores, notes, reviewed_at), the records, their golden_record_id and the
\* goldens stay as they were.
C19_RunOnlyAddsCandidates ==
    [][/\ Len(match_candidates') >= Len(match_candidates)
       /\ \A i \in CandidateIds :
              /\ match_candidates'[i].record_a_id = match_candidates[i].record_a_id
              /\ match_candidates'[i].record_b_id = match_candidates[i].record_b_id
       /\ \A s \in ScopeChoices, t \in Thresholds, w \in WeightChoices :
              (/\ clock' = clock
               /\ match_candidates' # match_candidates
               /\ RunMatching(s, t, w)) =>
                  /\ \A i \in CandidateIds :
                        match_candidates'[i] = match_candidates[i]
                  /\ UNCHANGED << customer_records, golden_record_id,
                                  golden_records >>]_vars

\* C19 witness: record 3 was promoted (its golden has source_count 1) and
\* is now referenced by the PENDING candidate (1, 3), which a promotion
\* would have found: the candidate was created by a run after the
\* promotion.  That run is not the one that created the earlier candidate
\* (2, 1), since one run never emits (2, 1) and (1, 3) together.
C19_Witness ==
    \E i, j \in CandidateIds :
        /\ i < j
        /\ match_candidates[i].record_a_id = 2 /\ match_candidates[i].record_b_id = 1
        /\ match_candidates[i].status # PENDING
        /\ match_candidates[j].record_a_id = 1 /\ match_candidates[j].record_b_id = 3
        /\ match_candidates[j].status = PENDING
        /\ golden_record_id[3] # NULL
        /\ golden_records[golden_record_id[3]].source_count = 1

\* Every order in which the elements of a list can be enumerated
Orderings(list) ==
    {[i \in 1..Len(list) |-> list[p[i]]] : p \in Permutations(1..Len(list))}

\* What a run emits, without the order: the unordered pairs with their scores
Emitted(matches) ==
    {[pair |-> {matches[i].record_a_id, matches[i].record_b_id},
      overall_score |-> matches[i].overall_score,
      field_scores |-> matches[i].field_scores] : i \in 1..Len(matches)}

\* C20: on the same store and with the same source_id, threshold and
\* weights, the loop of find_matches emits the same unordered pairs with
\* the same scores in whatever order the generated pairs are enumerated
\* and evaluated.
C20_RunIsOrderIndependent ==
    \A s \in ScopeChoices :
        LET existing_pairs == ExistingPairs(match_candidates)
            pairs == MatchPairs(customer_records, s)
        IN  \A t \in Thresholds, w \in WeightChoices :
                LET emitted == Emitted(find_matches(customer_records,
                                                    match_candidates, s, t, w))
                IN  \A reordered \in Orderings(pairs) :
                        Emitted(MatchLoop(reordered, existing_pairs, t, w, <<>>))
                            = emitted

\* C20 witness: the three records are stored behind a candidate (2, 1), and
\* an unscoped run has met the stored pair as (1, 2) and added the two
\* other pairs, which it can meet in either order.
C20_Witness ==
    /\ customer_records = <<1, 2, 3>>
    /\ Len(match_candidates) = 3
    /\ match_candidates[1].record_a_id = 2 /\ match_candidates[1].record_b_id = 1
    /\ PairOf(2) = {1, 3}
    /\ PairOf(3) = {2, 3}

\* The weight map compare_records uses for a field_weights argument
EffectiveWeights(field_weights) ==
    IF DOMAIN field_weights = {} THEN DEFAULT_FIELD_WEIGHTS ELSE field_weights

\* C28: a record that has a non-empty field among the keys of the weight
\* map scores 1.0 against itself, overall and in every scored field.
C28_IdentityScoresOne ==
    (/\ probe.pc = "done"
     /\ probe.record_a = probe.record_b
     /\ \E f \in DOMAIN EffectiveWeights(probe.field_weights) :
            probe.record_a[f] # <<>>) =>
        /\ probe.overall_score = 10000
        /\ \A f \in DOMAIN probe.field_scores : probe.field_scores[f] = 10000

\* A weight map with one more field
WithField(weights, f) ==
    [g \in DOMAIN weights \cup {f} |-> IF g = f THEN 50 ELSE weights[g]]

\* C29: a weighted field empty in both records has no entry in
\* field_scores and counts in neither sum: the overall score is
\* weighted_sum / total_weight over the other weighted fields, rounded to
\* four decimals, and 0.0 when none is left; adding a field that is empty
\* in both records to the weight map leaves the overall score as it is.
C29_EmptyFieldsAreSkipped ==
    probe.pc = "done" =>
        LET a == probe.record_a
            b == probe.record_b
            weights == EffectiveWeights(probe.field_weights)
            remaining == {f \in DOMAIN weights : a[f] # <<>> \/ b[f] # <<>>}
            weighted_sum == WeightedSum(a, b, weights, remaining)
            total_weight == TotalWeight(weights, remaining)
        IN  /\ DOMAIN probe.field_scores = remaining
            /\ remaining = {} => probe.overall_score = 0
            /\ total_weight > 0 =>
                  probe.overall_score =
                      Round4(<<weighted_sum[1], weighted_sum[2] * total_weight>>)
            /\ \A f \in FieldNames \ DOMAIN weights :
                  (a[f] = <<>> /\ b[f] = <<>>) =>
                      compare_records(a, b, WithField(weights, f)).overall_score
                          = probe.overall_score

\* C29 witness: two records with an email and nothing else were compared
\* under the default weights: nine weighted fields were skipped and the
\* overall score is the email's.
C29_Witness ==
    /\ probe.pc = "done"
    /\ probe.field_weights = NoWeights
    /\ DOMAIN probe.field_scores = {"email"}
    /\ probe.overall_score = 10000

\* C30: every field score and the overall score of a comparison lie in
\* [0, 1], whatever the weight map.
C30_ScoresInUnitRange ==
    probe.pc = "done" =>
        /\ probe.overall_score \in 0..10000
        /\ \A f \in DOMAIN probe.field_scores : probe.field_scores[f] \in 0..10000

\* C24: a review with a status other than "approved" and "rejected" leaves
\* the candidate's status, reviewed_at and notes as they were, and a review
\* that changes a candidate leaves it APPROVED or REJECTED, as requested;
\* so a PENDING candidate has never been reviewed.
C24_ReviewAcceptsTwoStatuses ==
    /\ [](\A m \in CandidateIds :
            match_candidates[m].status = PENDING =>
                /\ match_candidates[m].reviewed_at = NULL
                /\ match_candidates[m].notes = NoNotes)
    /\ [][\A m \in CandidateIds, st \in ReviewStatuses, n \in NotesChoices :
            review_match(m, st, n) =>
                IF st \in {"approved", "rejected"}
                THEN match_candidates'[m].status = st
                ELSE /\ match_candidates'[m].status = match_candidates[m].status
                     /\ match_candidates'[m].reviewed_at =
                           match_candidates[m].reviewed_at
                     /\ match_candidates'[m].notes = match_candidates[m].notes]_vars

\* C24 witness: one candidate has been reviewed and carries the requested
\* status, the reading of the clock and the notes; another is PENDING.
C24_Witness ==
    \E i, j \in CandidateIds :
        /\ match_candidates[i].status = REJECTED
        /\ match_candidates[i].reviewed_at = clock
        /\ match_candidates[i].notes \in NotesChoices
        /\ match_candidates[j].status = PENDING
        /\ match_candidates[j].reviewed_at = NULL

\* C26: every record's golden_record_id is NULL or the id of a row of
\* golden_records, and no step removes a golden.
C26_GoldenLinksPointToGoldens ==
    /\ [](\A r \in RecordIds :
            golden_record_id[r] = NULL \/ golden_record_id[r] \in GoldenIds)
    /\ [][/\ Len(golden_records') >= Len(golden_records)
          /\ \A r \in RecordIds :
                golden_record_id'[r] = NULL \/
                golden_record_id'[r] \in 1..Len(golden_records')]_vars

\* C26 witness: the three records are linked, to more than one golden, after
\* a promotion (a golden of one source) and a merge (a MERGED candidate).
C26_Witness ==
    /\ \A r \in RecordIds :
          r \in Range(customer_records) /\ golden_record_id[r] \in GoldenIds
    /\ Len(golden_records) >= 2
    /\ \E g \in GoldenIds : golden_records[g].source_count = 1
    /\ \E m \in CandidateIds : match_candidates[m].status = MERGED

\* C27: every stored candidate has two different records.
C27_CandidateRecordsDiffer ==
    \A m \in CandidateIds :
        match_candidates[m].record_a_id # match_candidates[m].record_b_id

\* C27 witness: candidates of runs scoped to each of the two sources: (1, 2)
\* and, later, (3, 1).
C27_Witness ==
    \E i, j \in CandidateIds :
        /\ i < j
        /\ match_candidates[i].record_a_id = 1 /\ match_candidates[i].record_b_id = 2
        /\ match_candidates[j].record_a_id = 3 /\ match_candidates[j].record_b_id = 1

\* C21: when promote_unmatched fails, none of the goldens it created and
\* none of the links it set is in the store.
C21_PromoteAllOrNothing ==
    [][\A w \in StepWorkers :
          (txn[w].pc = "promote" /\ txn'[w].pc = "failed") =>
              /\ \A g \in txn[w].created : g \notin 1..Len(golden_records')
              /\ \A r \in RecordIds : golden_record_id'[r] \notin txn[w].created]_vars

\* C22: every step of a matching run other than its commit leaves
\* match_candidates as it was, and a run that fails leaves the whole store
\* as it was.
C22_RunCommitsAtomically ==
    [][\A w \in StepWorkers :
          txn[w].pc = "run" =>
              /\ txn'[w].pc # "done" => match_candidates' = match_candidates
              /\ txn'[w].pc = "failed" => store' = store]_vars

\* C22 witness: a run has failed after it had emitted candidates, and none
\* of them is in the store.
C22_Witness ==
    \E w \in StepWorkers :
        /\ txn[w].pc = "failed"
        /\ txn[w].request = "run"
        /\ Len(txn[w].matches) >= 2
        /\ match_candidates = <<>>

\* A merge request for a candidate that does not exist or whose record_a or
\* record_b is not a row of customer_records
MissingForMerge(match_id) ==
    \/ match_id \notin CandidateIds
    \/ match_candidates[match_id].record_a_id \notin Range(customer_records)
    \/ match_candidates[match_id].record_b_id \notin Range(customer_records)

\* C23: a merge of a missing candidate, or of a candidate with a missing
\* record, fails with "not found" and leaves the store as it was; and every
\* merge that fails leaves the store as it was.
C23_MergeNotFoundChangesNothing ==
    [][\A w \in StepWorkers :
          /\ (txn[w] = Idle /\ txn'[w].pc # "idle" /\ txn'[w].request = "merge"
                /\ MissingForMerge(txn'[w].match_id))
                => /\ txn'[w].pc = "failed"
                   /\ txn'[w].error = "not_found"
                   /\ store' = store
          /\ (txn[w].pc = "merge" /\ txn'[w].pc = "failed") => store' = store]_vars

\* C23 witness: the merge of a stored, PENDING candidate whose record has
\* been deleted has failed with "not found"; no golden exists and no record
\* is linked.
C23_Witness ==
    \E w \in StepWorkers :
        /\ txn[w].pc = "failed"
        /\ txn[w].request = "merge"
        /\ txn[w].error = "not_found"
        /\ txn[w].match_id \in CandidateIds
        /\ match_candidates[txn[w].match_id].status = PENDING
        /\ golden_records = <<>>
        /\ \A r \in RecordIds : golden_record_id[r] = NULL

\* C25: a run whose threshold is outside [0, 1] (0..10000 ten-thousandths)
\* is not answered with success and adds no candidate.
C25_ThresholdOutOfRangeRejected ==
    [][\A w \in StepWorkers :
          (txn[w].pc = "run" /\ txn[w].threshold \notin 0..10000) =>
              /\ txn'[w].pc # "done"
              /\ match_candidates' = match_candidates]_vars

\* C35: the two records of every MERGED candidate are linked to the same
\* golden.
C35_MergedRecordsShareGolden ==
    \A m \in CandidateIds :
        match_candidates[m].status = MERGED =>
            /\ golden_record_id[match_candidates[m].record_a_id] # NULL
            /\ golden_record_id[match_candidates[m].record_a_id] =
                  golden_record_id[match_candidates[m].record_b_id]

\* C36: no step sets a linked record's golden_record_id back to NULL.
C36_LinkNeverCleared ==
    [][\A r \in RecordIds :
          golden_record_id[r] # NULL => golden_record_id'[r] # NULL]_vars

\* C36 witness: a merge has moved a record from one golden to another: a
\* golden has no record linked to it, and the three records are linked.
C36_Witness ==
    /\ \E g \in GoldenIds : LinkedTo(g) = {}
    /\ \A r \in RecordIds : golden_record_id[r] # NULL
    /\ \E m \in CandidateIds : match_candidates[m].status = MERGED

\* C37: every stored candidate keeps its record_a_id, record_b_id,
\* overall_score, field_scores and match_method at every step.
C37_CandidateIdentityFrozen ==
    [][\A m \in CandidateIds :
          /\ m <= Len(match_candidates')
          /\ match_candidates'[m].record_a_id = match_candidates[m].record_a_id
          /\ match_candidates'[m].record_b_id = match_candidates[m].record_b_id
          /\ match_candidates'[m].overall_score = match_candidates[m].overall_score
          /\ match_candidates'[m].field_scores = match_candidates[m].field_scores
          /\ match_candidates'[m].match_method = match_candidates[m].match_method]_vars

\* C37 witness: candidate (1, 2) has been merged and candidate (3, 1), of a
\* later run scoped to the other source, is stored after it; both carry the
\* score of their comparison.
C37_Witness ==
    \E i, j \in CandidateIds :
        /\ i < j
        /\ PairOf(i) = {1, 2} /\ match_candidates[i].status = MERGED
        /\ match_candidates[i].overall_score =
              CompareStored(match_candidates[i].record_a_id,
                            match_candidates[i].record_b_id, NoWeights).overall_score
        /\ match_candidates[j].record_a_id = 3 /\ match_candidates[j].record_b_id = 1
        /\ match_candidates[j].status = PENDING

\* C39: a promotion leaves every stored record linked to a golden or
\* referenced by a PENDING candidate, and leaves match_candidates as it was.
C39_PromotionLeavesLinkedOrPending ==
    /\ [](LET done == PromoteRun(customer_records, golden_record_id,
                                 match_candidates, golden_records)
          IN  \A r \in Range(customer_records) :
                  done.links[r] # NULL \/ HasPending(r, match_candidates))
    /\ [][promote_unmatched_to_golden =>
            /\ match_candidates' = match_candidates
            /\ \A r \in Range(customer_records') :
                  golden_record_id'[r] # NULL \/ HasPending(r, match_candidates')]_vars

\* C39 witness: after a promotion, one record has a golden of its own and
\* the two others are unlinked and wait on a PENDING candidate.
C39_Witness ==
    /\ Len(customer_records) = 3
    /\ Len(golden_records) = 1
    /\ golden_records[1].source_count = 1
    /\ Cardinality({r \in RecordIds : golden_record_id[r] = NULL}) = 2
    /\ \A r \in RecordIds :
          golden_record_id[r] = NULL => HasPending(r, match_candidates)

\* C38: a run that is repeated creates nothing.  While no record is
\* imported, a run with the arguments of a run that has been served, or of
\* a run that would create nothing, creates nothing after every step:
\* reviews, merges, promotions and other runs.  (A step that leaves the
\* stored pairs alone leaves the result of every run alone.)
C38_RerunCreatesNothing ==
    [][(/\ customer_records' = customer_records
        /\ ExistingPairs(match_candidates') # ExistingPairs(match_candidates))
          => \A s \in ScopeChoices, t \in Thresholds, w \in WeightChoices :
                (\/ RunMatching(s, t, w)
                 \/ find_matches(customer_records, match_candidates, s, t, w) = <<>>)
                => find_matches(customer_records', match_candidates', s, t, w) = <<>>]_vars

\* C38 witness: the three pairs are stored, one candidate MERGED and one
\* REJECTED, and a repeated unscoped run creates nothing.
C38_Witness ==
    /\ Len(match_candidates) = 3
    /\ \E i, j \in CandidateIds :
          /\ match_candidates[i].status = MERGED
          /\ match_candidates[j].status = REJECTED
    /\ find_matches(customer_records, match_candidates, NULL, 5000, NoWeights) = <<>>

C32_SelectionPrefersPresentThenLonger ==
    probe.pc = "selected" =>
        /\ DOMAIN probe.best = FieldNames
        /\ Cardinality(FieldNames) = 13
        /\ \A f \in FieldNames :
              LET va == probe.record_a[f]
                  vb == probe.record_b[f]
              IN  /\ (va # <<>> /\ vb = <<>>) => probe.best[f] = va
                  /\ (va = <<>> /\ vb # <<>>) => probe.best[f] = vb
                  /\ (va # <<>> /\ vb # <<>> /\ Len(va) > Len(vb)) => probe.best[f] = va
                  /\ (va # <<>> /\ vb # <<>> /\ Len(vb) > Len(va)) => probe.best[f] = vb
                  /\ (va # <<>> /\ vb # <<>> /\ Len(va) = Len(vb)) => probe.best[f] = va
                  /\ (va = <<>> /\ vb = <<>>) => probe.best[f] = <<>>

\* C32 witness: a selection where one field has two different values of
\* the same length (a's is taken) and another field has a value on b's
\* side only.
C32_Witness ==
    /\ probe.pc = "selected"
    /\ \E f, g \in FieldNames :
          /\ probe.record_a[f] # probe.record_b[f]
          /\ probe.record_a[f] # <<>> /\ probe.record_b[f] # <<>>
          /\ Len(probe.record_a[f]) = Len(probe.record_b[f])
          /\ probe.best[f] = probe.record_a[f]
          /\ probe.record_a[g] = <<>> /\ probe.record_b[g] # <<>>
          /\ probe.best[g] = probe.record_b[g]

\* The digits of a phone value, in order
PhoneDigits(value) == SelectSeq(value, LAMBDA c : c \in Digits)

IsSuffixOf(x, y) == \E k \in 0..Len(y) : SubSeq(y, k + 1, Len(y)) = x

\* The phone score of the spec: 0.0, 0.95 or the edit similarity
PhoneScore(value_a, value_b) ==
    LET a == PhoneDigits(value_a)
        b == PhoneDigits(value_b)
        longest == IF Len(a) >= Len(b) THEN Len(a) ELSE Len(b)
    IN  IF value_a = <<>> \/ value_b = <<>> \/ a = <<>> \/ b = <<>> THEN <<0, 1>>
        ELSE IF IsSuffixOf(a, b) \/ IsSuffixOf(b, a) THEN <<95, 100>>
        ELSE <<longest - levenshtein_distance(a, b), longest>>

\* C33: the field comparator on phone gives 0.0 when a value is empty or
\* has no digit, else 0.95 when one digit string is a suffix of the other,
\* else the edit similarity of the digit strings; the stored field score is
\* that score rounded.
C33_PhoneScore ==
    probe.pc = "done" =>
        LET score == compare_field("phone", probe.record_a["phone"],
                                   probe.record_b["phone"])
            expected == PhoneScore(probe.record_a["phone"], probe.record_b["phone"])
        IN  /\ score[1] * expected[2] = expected[1] * score[2]
            /\ "phone" \in DOMAIN probe.field_scores =>
                  probe.field_scores["phone"] = Round4(expected)

\* C33 witness: "+1-555-0101" was compared with "555-0101" and the phone
\* scored 0.95.
C33_Witness ==
    /\ probe.pc = "done"
    /\ probe.record_a["phone"] =
          <<"+", "1", "-", "5", "5", "5", "-", "0", "1", "0", "1">>
    /\ probe.record_b["phone"] = <<"5", "5", "5", "-", "0", "1", "0", "1">>
    /\ probe.field_scores["phone"] = 9500

\* s without its prefix p, when it starts with p
DropLeading(s, p) ==
    IF StartsWith(s, p) THEN SubSeq(s, Len(p) + 1, Len(s)) ELSE s

\* The website normalizer of the spec: text normalization, then a leading
\* scheme, then a leading "www.", then one trailing "/"
WebsiteNormalForm(value) ==
    LET text == normalize_text(value)
        no_scheme ==
            IF StartsWith(text, <<"h", "t", "t", "p", "s", ":", "/", "/">>)
            THEN DropLeading(text, <<"h", "t", "t", "p", "s", ":", "/", "/">>)
            ELSE DropLeading(text, <<"h", "t", "t", "p", ":", "/", "/">>)
        no_www == DropLeading(no_scheme, <<"w", "w", "w", ".">>)
    IN  IF no_www # <<>> /\ no_www[Len(no_www)] = "/"
        THEN SubSeq(no_www, 1, Len(no_www) - 1)
        ELSE no_www

\* C34: the website normalization of the field comparator is the spec's
\* normalizer on every input, and two websites score 1.0 exactly when
\* their forms under the spec's normalizer are equal.
C34_WebsiteNormalizerMatchesSpec ==
    probe.pc = "done" =>
        LET wa == probe.record_a["website"]
            wb == probe.record_b["website"]
        IN  /\ normalize_website(wa) = WebsiteNormalForm(wa)
            /\ normalize_website(wb) = WebsiteNormalForm(wb)
            /\ (wa # <<>> /\ wb # <<>> /\ "website" \in DOMAIN probe.field_scores) =>
                  (probe.field_scores["website"] = 10000
                      <=> WebsiteNormalForm(wa) = WebsiteNormalForm(wb))

====
